---- MODULE Spec2Model ----
(***************************************************************************)
(* ArduCopter flight-mode arbitration (ArduCopter/flight_mode.cpp):        *)
(* Copter::set_mode, Copter::exit_mode, Copter::update_flight_mode, the    *)
(* mode predicates and Copter::avoidance_maneuver.                         *)
(*                                                                         *)
(* set_mode is modelled statement by statement (pc), so that the order of  *)
(* init, exit cleanup, commit, logging, fence and notification is visible. *)
(* Every hook the code calls appends one event to trace, together with the *)
(* value of control_mode it would observe at that moment.                  *)
(***************************************************************************)
EXTENDS Integers, Sequences, FiniteSets, TLC

VARIABLES
    control_mode,       \* Copter::control_mode
    armed,              \* motors.armed()
    land_complete,      \* ap.land_complete
    mission_state,      \* mission.state()
    autopilot_mode,     \* AP_Notify::flags.autopilot_mode
    build,              \* the preprocessor configuration of this build
    pc,                 \* position inside set_mode ("idle": no call in progress)
    call,               \* the operation in progress or last completed
    trace,              \* the hooks that operation has invoked so far, in order
    trafic,             \* _trafic_angle, _trafic_distance, _rel_v, _rel_d
    do_track_maneuver,
    do_avoid_maneuver,
    avoidance_roll_angle_cd,
    avoidance_pitch_angle_cd

\* the mode state machine's variables
mode_vars == <<control_mode, armed, land_complete, mission_state, autopilot_mode,
               build, pc>>

\* the avoidance generator's variables
avoid_vars == <<trafic, do_track_maneuver, do_avoid_maneuver,
                avoidance_roll_angle_cd, avoidance_pitch_angle_cd>>

vars == <<mode_vars, call, trace, avoid_vars>>

----------------------------------------------------------------------------
(* Mode identifiers.  The enum values live in defines.h; the model keeps   *)
(* the enumerators' names.                                                 *)

Modes ==
    {"STABILIZE", "STAB_RUAS", "ACRO", "ALT_HOLD", "AUTO", "AUTO_RUAS",
     "GUIDED", "LOITER", "RTL", "CIRCLE", "LAND", "DRIFT", "SPORT", "FLIP",
     "AUTOTUNE", "POSHOLD", "BRAKE", "THROW"}

\* number of uint8_t values outside the enum that requests are drawn from
MaxUndefined == 2

\* uint8_t values that name no mode, written the way print_flight_mode renders them
UndefinedModes ==
    { "Mode(" \o ToString(255 - i) \o ")" : i \in 0..(MaxUndefined - 1) }

\* every value a uint8_t mode argument is drawn from
ModeValues == Modes \cup UndefinedModes

\* preprocessor configurations: FRAME_CONFIG == HELI_FRAME, AUTOTUNE_ENABLED,
\* POSHOLD_ENABLED, AC_FENCE, MOUNT
BuildConfigs ==
    { [heli |-> FALSE, autotune |-> TRUE,  poshold |-> TRUE,  fence |-> TRUE,  mount |-> TRUE],
      [heli |-> TRUE,  autotune |-> FALSE, poshold |-> TRUE,  fence |-> TRUE,  mount |-> FALSE],
      [heli |-> FALSE, autotune |-> FALSE, poshold |-> FALSE, fence |-> FALSE, mount |-> FALSE] }

\* AP_Mission::mission_state
MissionStates == {"MISSION_STOPPED", "MISSION_RUNNING", "MISSION_COMPLETE"}

\* largest channel_throttle->control_in value drawn
MaxThrottle == 1

ThrottleInputs == 0..MaxThrottle

----------------------------------------------------------------------------
(* Pure predicates                                                         *)

\* a mode_requires_GPS that has lost its BRAKE case
mode_requires_GPS_NoBrake(mode) ==
    mode \in {"AUTO", "AUTO_RUAS", "GUIDED", "LOITER", "RTL", "CIRCLE",
              "DRIFT", "POSHOLD", "THROW"}

\* Copter::mode_requires_GPS
mode_requires_GPS(mode) ==
    mode \in {"AUTO", "AUTO_RUAS", "GUIDED", "LOITER", "RTL", "CIRCLE",
              "DRIFT", "POSHOLD", "BRAKE", "THROW"}

\* Copter::mode_has_manual_throttle
mode_has_manual_throttle(mode) ==
    mode \in {"ACRO", "STABILIZE", "STAB_RUAS"}

\* a mode_allows_arming that lets GUIDED arm whatever the origin
mode_allows_arming_AnyOrigin(mode, arming_from_gcs) ==
    \/ mode_has_manual_throttle(mode)
    \/ mode \in {"LOITER", "ALT_HOLD", "POSHOLD", "DRIFT", "SPORT", "THROW", "GUIDED"}

\* Copter::mode_allows_arming
mode_allows_arming(mode, arming_from_gcs) ==
    \/ mode_has_manual_throttle(mode)
    \/ mode = "LOITER"
    \/ mode = "ALT_HOLD"
    \/ mode = "POSHOLD"
    \/ mode = "DRIFT"
    \/ mode = "SPORT"
    \/ mode = "THROW"
    \/ (arming_from_gcs /\ mode = "GUIDED")

\* a notify_flight_mode that has lost its LAND case
notify_flight_mode_NoLand(mode) ==
    mode \in {"AUTO", "AUTO_RUAS", "GUIDED", "RTL", "CIRCLE"}

\* the switch of Copter::notify_flight_mode: the value written to the flag
notify_flight_mode(mode) ==
    mode \in {"AUTO", "AUTO_RUAS", "GUIDED", "RTL", "CIRCLE", "LAND"}

----------------------------------------------------------------------------
(* Dispatch tables: the two switch statements                              *)

\* the switch of Copter::set_mode: the init hook its case calls for `mode`
\* in build b, "none" when the switch falls to default (success = false)
set_mode_switch(mode, b) ==
    CASE mode = "ACRO"      -> IF b.heli THEN "heli_acro_init" ELSE "acro_init"
      [] mode = "STABILIZE" -> IF b.heli THEN "heli_stabilize_init" ELSE "stabilize_init"
      [] mode = "STAB_RUAS" -> IF b.heli THEN "heli_stabilize_init" ELSE "stabilize_init"
      [] mode = "ALT_HOLD"  -> "althold_init"
      [] mode = "AUTO"      -> "auto_init"
      [] mode = "AUTO_RUAS" -> "auto_init"
      [] mode = "CIRCLE"    -> "circle_init"
      [] mode = "LOITER"    -> "loiter_init"
      [] mode = "GUIDED"    -> "guided_init"
      [] mode = "LAND"      -> "land_init"
      [] mode = "RTL"       -> "rtl_init"
      [] mode = "DRIFT"     -> "drift_init"
      [] mode = "SPORT"     -> "sport_init"
      [] mode = "FLIP"      -> "flip_init"
      [] mode = "AUTOTUNE" /\ b.autotune -> "autotune_init"
      [] mode = "POSHOLD" /\ b.poshold   -> "poshold_init"
      [] mode = "BRAKE"     -> "brake_init"
      [] mode = "THROW"     -> "throw_init"
      [] OTHER              -> "none"

\* a switch whose default case falls back to the stabilize init
InitCase_DefaultStabilize(mode, b) ==
    IF set_mode_switch(mode, b) = "none" THEN "stabilize_init" ELSE set_mode_switch(mode, b)

\* a switch that has lost its DRIFT case
InitCase_NoDrift(mode, b) ==
    IF mode = "DRIFT" THEN "none" ELSE set_mode_switch(mode, b)

\* the init hook set_mode calls for `mode`
InitCase(mode, b) == set_mode_switch(mode, b)

\* the switch of Copter::update_flight_mode: the run hook dispatched for the
\* value `mode` of control_mode in build b, "none" when no case matches
update_flight_mode_switch(mode, b) ==
    CASE mode = "ACRO"      -> IF b.heli THEN "heli_acro_run" ELSE "acro_run"
      [] mode = "STABILIZE" -> IF b.heli THEN "heli_stabilize_run" ELSE "stabilize_run"
      [] mode = "STAB_RUAS" -> IF b.heli THEN "heli_stabilize_run_ruas" ELSE "stabilize_run"
      [] mode = "ALT_HOLD"  -> "althold_run"
      [] mode = "AUTO"      -> "auto_run"
      [] mode = "AUTO_RUAS" -> "auto_run_ruas"
      [] mode = "CIRCLE"    -> "circle_run"
      [] mode = "LOITER"    -> "loiter_run"
      [] mode = "GUIDED"    -> "guided_run"
      [] mode = "LAND"      -> "land_run"
      [] mode = "RTL"       -> "rtl_run"
      [] mode = "DRIFT"     -> "drift_run"
      [] mode = "SPORT"     -> "sport_run"
      [] mode = "FLIP"      -> "flip_run"
      [] mode = "AUTOTUNE" /\ b.autotune -> "autotune_run"
      [] mode = "POSHOLD" /\ b.poshold   -> "poshold_run"
      [] mode = "BRAKE"     -> "brake_run"
      [] mode = "THROW"     -> "throw_run"
      [] OTHER              -> "none"

\* a dispatcher with a default case that runs the stabilize controller
RunCase_DefaultStabilize(mode, b) ==
    IF update_flight_mode_switch(mode, b) = "none"
      THEN "stabilize_run" ELSE update_flight_mode_switch(mode, b)

\* a dispatcher that has lost its THROW case
RunCase_NoThrow(mode, b) ==
    IF mode = "THROW" THEN "none" ELSE update_flight_mode_switch(mode, b)

\* the run hook update_flight_mode dispatches for `mode`
RunCase(mode, b) == update_flight_mode_switch(mode, b)

\* The init hooks live in the control_*.cpp files.  Their results follow the
\* comment above set_mode: ACRO, STABILIZE, ALTHOLD, LAND, DRIFT and SPORT can
\* always be set successfully; every other hook may accept or reject.
AlwaysSucceedHooks ==
    {"acro_init", "heli_acro_init", "stabilize_init", "heli_stabilize_init",
     "althold_init", "land_init", "drift_init", "sport_init"}

InitOutcomes(hook, ignore_checks) ==
    IF hook \in AlwaysSucceedHooks THEN {TRUE} ELSE BOOLEAN

----------------------------------------------------------------------------
(* Events                                                                  *)

\* one hook invocation: its name, its argument, and the value of
\* control_mode at the moment it runs
Ev(name, arg) == [ev |-> name, cm |-> control_mode, arg |-> arg]

\* the event e when `cond`, nothing otherwise
When(cond, e) == IF cond THEN <<e>> ELSE <<>>

\* a preemptive caller: a call may start while set_mode is in progress
Preemptive == TRUE

\* the callers of this file run on one cooperative scheduler thread: a call
\* into this file starts only when no other one is in progress
NoCallInProgress == pc = "idle"

----------------------------------------------------------------------------
(* Copter::set_mode                                                        *)

\* a set_mode without the early return (every request re-initialises)
SameMode_Never(mode) == FALSE

\* line 21: already in the desired mode
SameMode(mode) == mode = control_mode

\* the control flow of set_mode after its switch (lines 119-143): the
\* statement that follows the one at `at`
set_mode_flow(at, success, b) ==
    CASE at = "switch"    -> IF success THEN "exit_mode" ELSE "log_error"
      [] at = "exit_mode" -> "commit"
      [] at = "commit"    -> "log_mode"
      [] at = "log_mode"  -> IF b.fence THEN "fence" ELSE "notify"
      [] at = "fence"     -> "notify"
      [] at = "log_error" -> "return"
      [] at = "notify"    -> "return"
      [] at = "return"    -> "idle"

\* line 138 without its "if (success)": the notify object is updated on failure too
NextPc_NotifyOnFailure(at, success, b) ==
    IF at = "log_error" THEN "notify" ELSE set_mode_flow(at, success, b)

\* lines 122 and 123 exchanged: the mode is committed before the exit cleanup
NextPc_CommitFirst(at, success, b) ==
    CASE at = "switch" /\ success -> "commit"
      [] at = "commit"            -> "exit_mode"
      [] at = "exit_mode"         -> "log_mode"
      [] OTHER                    -> set_mode_flow(at, success, b)

\* lines 123 and 124 exchanged: the mode is logged before it is committed
NextPc_LogBeforeCommit(at, success, b) ==
    CASE at = "exit_mode" -> "log_mode"
      [] at = "log_mode"  -> "commit"
      [] at = "commit"    -> IF b.fence THEN "fence" ELSE "notify"
      [] OTHER            -> set_mode_flow(at, success, b)

\* line 122 missing: the exit cleanup is never called
NextPc_SkipExit(at, success, b) ==
    IF at = "switch" /\ success THEN "commit" ELSE set_mode_flow(at, success, b)

\* the statement of set_mode that follows the one at `at`
NextPc(at, success, b) == set_mode_flow(at, success, b)

\* lines 14-23: entry, ignore_checks, the same-mode early return
set_mode_call(mode, a, lc) ==
    /\ NoCallInProgress
    /\ armed' = a
    /\ land_complete' = lc
    /\ trace' = <<>>
    /\ IF SameMode(mode)
         THEN /\ call' = [op |-> "set_mode", mode |-> mode, old |-> control_mode,
                          ignore_checks |-> ~a, success |-> FALSE,
                          done |-> TRUE, ret |-> TRUE]
              /\ pc' = "idle"
         ELSE /\ call' = [op |-> "set_mode", mode |-> mode, old |-> control_mode,
                          ignore_checks |-> ~a, success |-> FALSE,
                          done |-> FALSE, ret |-> FALSE]
              /\ pc' = "switch"
    /\ UNCHANGED <<control_mode, mission_state, autopilot_mode, build, avoid_vars>>

\* lines 25-117: the switch calls the target's init hook
set_mode_init ==
    /\ pc = "switch"
    /\ LET hook == InitCase(call.mode, build) IN
         IF hook = "none"
           THEN /\ call' = [call EXCEPT !.success = FALSE]
                /\ trace' = trace
                /\ pc' = NextPc("switch", FALSE, build)
           ELSE \E r \in InitOutcomes(hook, call.ignore_checks) :
                /\ call' = [call EXCEPT !.success = r]
                /\ trace' = Append(trace, Ev(hook, call.ignore_checks))
                /\ pc' = NextPc("switch", r, build)
    /\ UNCHANGED <<control_mode, armed, land_complete, mission_state,
                   autopilot_mode, build, avoid_vars>>

----------------------------------------------------------------------------
(* Copter::exit_mode                                                       *)

\* line 254 without its AUTO_RUAS disjunct
LeavingAuto_OnlyAuto(old_control_mode) == old_control_mode = "AUTO"

\* line 254: leaving a mission-driven mode
LeavingAuto(old_control_mode) ==
    old_control_mode = "AUTO" \/ old_control_mode = "AUTO_RUAS"

\* line 268 without its "!ap.land_complete"
SmoothThrottle_IgnoresLanded(old_control_mode, new_control_mode) ==
    /\ mode_has_manual_throttle(old_control_mode)
    /\ ~mode_has_manual_throttle(new_control_mode)
    /\ armed

\* line 268: the guard of the throttle-integrator pre-load
SmoothThrottle(old_control_mode, new_control_mode) ==
    /\ mode_has_manual_throttle(old_control_mode)
    /\ ~mode_has_manual_throttle(new_control_mode)
    /\ armed
    /\ ~land_complete

\* lines 276-296: the HELI_FRAME teardown
HeliExit(old_control_mode, new_control_mode) ==
    When(old_control_mode = "ACRO", Ev("attitude_control.use_flybar_passthrough", "false"))
    \o When(old_control_mode = "ACRO", Ev("motors.set_acro_tail", "false"))
    \o When(/\ ~mode_has_manual_throttle(old_control_mode)
            /\ new_control_mode \in {"STABILIZE", "STAB_RUAS"},
            Ev("input_manager.set_stab_col_ramp", "1.0"))
    \o When(/\ ~mode_has_manual_throttle(old_control_mode)
            /\ new_control_mode \notin {"STABILIZE", "STAB_RUAS"}
            /\ new_control_mode = "ACRO",
            Ev("input_manager.set_stab_col_ramp", "0.0"))
    \o <<Ev("motors.reset_radio_passthrough", "")>>

\* the hooks exit_mode(old_control_mode, new_control_mode) invokes, in order,
\* when mission.state() reads ms and channel_throttle->control_in reads thr
ExitEvents(old_control_mode, new_control_mode, ms, thr) ==
    When(build.autotune /\ old_control_mode = "AUTOTUNE", Ev("autotune_stop", ""))
    \o When(LeavingAuto(old_control_mode), Ev("mission.state", ms))
    \o When(LeavingAuto(old_control_mode) /\ ms = "MISSION_RUNNING",
            Ev("mission.stop", ""))
    \o When(LeavingAuto(old_control_mode) /\ build.mount,
            Ev("camera_mount.set_mode_to_default", ""))
    \o When(old_control_mode = "THROW", Ev("throw_exit", ""))
    \o When(SmoothThrottle(old_control_mode, new_control_mode),
            Ev("channel_throttle.control_in", thr))
    \o When(SmoothThrottle(old_control_mode, new_control_mode),
            Ev("set_accel_throttle_I_from_pilot_throttle",
               <<"get_pilot_desired_throttle", thr>>))
    \o <<Ev("takeoff_stop", "")>>
    \o (IF build.heli THEN HeliExit(old_control_mode, new_control_mode) ELSE <<>>)

\* AP_Mission::stop(): the state mission.state() reports after line 256
MissionAfterStop(ms) == "MISSION_STOPPED"

\* line 122 and lines 245-297: exit_mode(control_mode, mode).  mission.state()
\* is read only when leaving AUTO / AUTO_RUAS, the throttle stick only when
\* the pre-load runs.
exit_mode ==
    /\ pc = "exit_mode"
    /\ LET old_control_mode == control_mode
           new_control_mode == call.mode
       IN \E ms \in (IF LeavingAuto(old_control_mode) THEN MissionStates ELSE {mission_state}),
             thr \in (IF SmoothThrottle(old_control_mode, new_control_mode)
                        THEN ThrottleInputs ELSE {0}) :
            /\ trace' = trace \o ExitEvents(old_control_mode, new_control_mode, ms, thr)
            /\ mission_state' = IF LeavingAuto(old_control_mode) /\ ms = "MISSION_RUNNING"
                                  THEN MissionAfterStop(ms) ELSE ms
    /\ pc' = NextPc("exit_mode", call.success, build)
    /\ UNCHANGED <<control_mode, armed, land_complete, autopilot_mode, build, call, avoid_vars>>

----------------------------------------------------------------------------
(* Copter::set_mode, lines 119-144                                         *)

\* line 123: control_mode = mode
set_mode_commit ==
    /\ pc = "commit"
    /\ control_mode' = call.mode
    /\ trace' = Append(trace, Ev("commit", call.mode))
    /\ pc' = NextPc("commit", call.success, build)
    /\ UNCHANGED <<armed, land_complete, mission_state, autopilot_mode, build, call, avoid_vars>>

\* line 124: DataFlash.Log_Write_Mode(control_mode)
set_mode_log ==
    /\ pc = "log_mode"
    /\ trace' = Append(trace, Ev("Log_Write_Mode", control_mode))
    /\ pc' = NextPc("log_mode", call.success, build)
    /\ UNCHANGED <<control_mode, armed, land_complete, mission_state,
                   autopilot_mode, build, call, avoid_vars>>

\* lines 126-131: fence.manual_recovery_start(), compiled in when AC_FENCE
set_mode_fence ==
    /\ pc = "fence"
    /\ trace' = Append(trace, Ev("fence.manual_recovery_start", ""))
    /\ pc' = NextPc("fence", call.success, build)
    /\ UNCHANGED <<control_mode, armed, land_complete, mission_state,
                   autopilot_mode, build, call, avoid_vars>>

\* line 134: Log_Write_Error(ERROR_SUBSYSTEM_FLIGHT_MODE, mode)
set_mode_log_error ==
    /\ pc = "log_error"
    /\ trace' = Append(trace, Ev("Log_Write_Error", call.mode))
    /\ pc' = NextPc("log_error", call.success, build)
    /\ UNCHANGED <<control_mode, armed, land_complete, mission_state,
                   autopilot_mode, build, call, avoid_vars>>

\* lines 137-140: notify_flight_mode(control_mode)
set_mode_notify ==
    /\ pc = "notify"
    /\ autopilot_mode' = notify_flight_mode(control_mode)
    /\ trace' = Append(trace, Ev("notify_flight_mode", control_mode))
    /\ pc' = NextPc("notify", call.success, build)
    /\ UNCHANGED <<control_mode, armed, land_complete, mission_state, build, call, avoid_vars>>

\* line 143: return success
set_mode_return ==
    /\ pc = "return"
    /\ call' = [call EXCEPT !.done = TRUE, !.ret = call.success]
    /\ pc' = NextPc("return", call.success, build)
    /\ UNCHANGED <<control_mode, armed, land_complete, mission_state,
                   autopilot_mode, build, trace, avoid_vars>>

----------------------------------------------------------------------------
(* Copter::update_flight_mode                                              *)

\* one control-loop tick: refresh the EKF limits, then dispatch on control_mode
update_flight_mode ==
    /\ NoCallInProgress
    /\ call' = [op |-> "update_flight_mode", mode |-> control_mode,
                old |-> control_mode, ignore_checks |-> FALSE,
                success |-> TRUE, done |-> TRUE, ret |-> TRUE]
    /\ trace' = <<Ev("ahrs.getEkfControlLimits", "")>>
                \o When(RunCase(control_mode, build) # "none",
                        Ev(RunCase(control_mode, build), ""))
    /\ UNCHANGED <<control_mode, armed, land_complete, mission_state,
                   autopilot_mode, build, pc, avoid_vars>>

----------------------------------------------------------------------------
(* Copter::avoidance_maneuver                                              *)
(* Floats are carried in fixed point: accelerations and ratios in          *)
(* thousandths, atanf results in 1e-4 rad, so that the final               *)
(* "*= -10000" yields an integer.                                          *)

safety_bubble == 500
manouver_bubble == 650
avoidance_gain == 500

Abs(x) == IF x < 0 THEN -x ELSE x

\* line 387: sqrt(safety_bubble), in thousandths
SqrtBubble ==
    CHOOSE r \in 0..(safety_bubble * 100) :
        r * r <= safety_bubble * 1000000 /\ (r + 1) * (r + 1) > safety_bubble * 1000000

\* line 387: response = 10*avoidance_gain / (_trafic_distance*sqrt(safety_bubble) - 1),
\* in units of 1e-4
Response(distance) ==
    (10 * avoidance_gain * 10000) \div ((distance * SqrtBubble) \div 1000 - 1)

\* atanf of a ratio given in thousandths, in 1e-4 rad: x/(1+0.28x^2) for
\* |x| <= 1 and pi/2 - x/(x^2+0.28) beyond (within 0.005 rad of atanf)
Atan(ratio) ==
    LET x == Abs(ratio)
        a == IF x <= 1000
               THEN (x * 10000) \div (1000 + (28 * x * x) \div 100000)
               ELSE 15708 - 10000000 \div (x + 280000 \div x)
    IN IF ratio < 0 THEN -a ELSE a

\* lines 391-392: atanf(accel / 9.81), accel in thousandths
BankAngle(accel) ==
    LET r == (Abs(accel) * 100) \div 981
    IN Atan(IF accel < 0 THEN -r ELSE r)

\* lines 395 and 398: if (abs(angle) > 5) angle = 5, the angle in 1e-4 rad
Clamp5(angle) == IF Abs(angle) > 50000 THEN 50000 ELSE angle

\* lines 402-407: sign by the side of the traffic, then "*= -10000"
\* (the 1e-4 rad fixed point absorbs the factor 10000)
Publish(angle, side) == -(IF side < 0 THEN -angle ELSE angle)

\* line 374 with manouver_bubble as the outer radius
TrackZone_ManouverBubble(tr) ==
    Abs(tr.angle) < 70 /\ tr.distance > 50 /\ tr.distance < manouver_bubble

\* line 374: the wide yaw-tracking zone
TrackZone(tr) == Abs(tr.angle) < 70 /\ tr.distance > 50 /\ tr.distance < 1000

\* line 381 with inclusive bounds
AvoidZone_Inclusive(tr) == Abs(tr.angle) <= 70 /\ tr.distance >= 50 /\ tr.distance <= 700

\* line 381: the narrow avoidance zone
AvoidZone(tr) == Abs(tr.angle) < 70 /\ tr.distance > 50 /\ tr.distance < 700

\* avoidance_accel_pitch is read at line 392 without ever being assigned
\* (line 390 is commented out): any value may be found there
UninitAccel == {-9810, 0, 9810}

\* the whole call, entered with the members holding tr
avoidance_maneuver(tr) ==
    /\ NoCallInProgress
    /\ do_track_maneuver' = TrackZone(tr)
    /\ do_avoid_maneuver' = AvoidZone(tr)
    /\ IF AvoidZone(tr)
         THEN LET d == IF tr.distance < safety_bubble THEN safety_bubble ELSE tr.distance
                  avoidance_accel_roll == (tr.rel_v_x * Response(d)) \div 10
              IN /\ trafic' = [tr EXCEPT !.distance = d]
                 /\ avoidance_roll_angle_cd' =
                        Publish(Clamp5(BankAngle(avoidance_accel_roll)), tr.rel_d_y)
                 /\ \E avoidance_accel_pitch \in UninitAccel :
                        avoidance_pitch_angle_cd' =
                            Publish(Clamp5(BankAngle(avoidance_accel_pitch)), tr.rel_d_x)
         ELSE /\ trafic' = tr
              /\ UNCHANGED <<avoidance_roll_angle_cd, avoidance_pitch_angle_cd>>
    /\ call' = [op |-> "avoidance_maneuver", mode |-> control_mode,
                old |-> control_mode, ignore_checks |-> FALSE,
                success |-> TRUE, done |-> TRUE, ret |-> TRUE]
    /\ trace' = <<Ev("avoidance_maneuver", tr),
                  Ev("Log_Write_Avoidance",
                     <<do_avoid_maneuver', avoidance_roll_angle_cd',
                       avoidance_pitch_angle_cd', do_track_maneuver'>>)>>
    /\ UNCHANGED mode_vars

\* traffic telemetry the mode machine's specification draws from: one track
\* outside both zones, one inside the avoidance zone
SomeTraffic ==
    { [angle |-> 80, distance |-> 600, rel_v_x |-> 100, rel_d_x |-> 1, rel_d_y |-> 1],
      [angle |-> 0,  distance |-> 600, rel_v_x |-> 100, rel_d_x |-> 1, rel_d_y |-> -1] }

----------------------------------------------------------------------------
(* Specification                                                           *)

\* the state after construction: control_mode(STABILIZE), disarmed, landed
Init ==
    /\ control_mode = "STABILIZE"
    /\ armed = FALSE
    /\ land_complete = TRUE
    /\ mission_state = "MISSION_STOPPED"
    /\ autopilot_mode = FALSE
    /\ build \in BuildConfigs
    /\ pc = "idle"
    /\ call = [op |-> "none", mode |-> "STABILIZE", old |-> "STABILIZE",
               ignore_checks |-> FALSE, success |-> FALSE, done |-> TRUE,
               ret |-> FALSE]
    /\ trace = <<>>
    /\ trafic = [angle |-> 0, distance |-> 0, rel_v_x |-> 0, rel_d_x |-> 0, rel_d_y |-> 0]
    /\ do_track_maneuver = FALSE
    /\ do_avoid_maneuver = FALSE
    /\ avoidance_roll_angle_cd = 0
    /\ avoidance_pitch_angle_cd = 0

Next ==
    \/ \E mode \in ModeValues, a \in BOOLEAN, lc \in BOOLEAN : set_mode_call(mode, a, lc)
    \/ set_mode_init
    \/ exit_mode
    \/ set_mode_commit
    \/ set_mode_log
    \/ set_mode_fence
    \/ set_mode_log_error
    \/ set_mode_notify
    \/ set_mode_return
    \/ update_flight_mode
    \/ \E tr \in SomeTraffic \cup {trafic} : avoidance_maneuver(tr)

Spec == Init /\ [][Next]_vars

\* the dispatcher taken as a function of control_mode: the same program
\* started with control_mode holding any uint8_t value
InitAnyMode ==
    /\ control_mode \in ModeValues
    /\ armed = FALSE
    /\ land_complete = TRUE
    /\ mission_state = "MISSION_STOPPED"
    /\ autopilot_mode = FALSE
    /\ build \in BuildConfigs
    /\ pc = "idle"
    /\ call = [op |-> "none", mode |-> control_mode, old |-> control_mode,
               ignore_checks |-> FALSE, success |-> FALSE, done |-> TRUE,
               ret |-> FALSE]
    /\ trace = <<>>
    /\ trafic = [angle |-> 0, distance |-> 0, rel_v_x |-> 0, rel_d_x |-> 0, rel_d_y |-> 0]
    /\ do_track_maneuver = FALSE
    /\ do_avoid_maneuver = FALSE
    /\ avoidance_roll_angle_cd = 0
    /\ avoidance_pitch_angle_cd = 0

SpecAnyMode == InitAnyMode /\ [][Next]_vars

----------------------------------------------------------------------------
(* The predicates, called by the arming and failsafe code                  *)

\* a call of mode_allows_arming(mode, arming_from_gcs)
mode_allows_arming_call(mode, arming_from_gcs) ==
    /\ NoCallInProgress
    /\ call' = [op |-> "mode_allows_arming", mode |-> mode, old |-> control_mode,
                ignore_checks |-> FALSE, success |-> TRUE, done |-> TRUE,
                ret |-> mode_allows_arming(mode, arming_from_gcs)]
    /\ trace' = <<Ev("mode_allows_arming", arming_from_gcs)>>
    /\ UNCHANGED <<mode_vars, avoid_vars>>

\* a call of mode_requires_GPS(mode)
mode_requires_GPS_call(mode) ==
    /\ NoCallInProgress
    /\ call' = [op |-> "mode_requires_GPS", mode |-> mode, old |-> control_mode,
                ignore_checks |-> FALSE, success |-> TRUE, done |-> TRUE,
                ret |-> mode_requires_GPS(mode)]
    /\ trace' = <<Ev("mode_requires_GPS", "")>>
    /\ UNCHANGED <<mode_vars, avoid_vars>>

NextQueries ==
    \/ \E mode \in ModeValues, gcs \in BOOLEAN : mode_allows_arming_call(mode, gcs)
    \/ \E mode \in ModeValues : mode_requires_GPS_call(mode)

\* the predicates applied to every mode value, in every build
SpecQueries == Init /\ [][NextQueries]_vars

----------------------------------------------------------------------------
(* The avoidance generator on its own, over the zone boundaries            *)

\* bearings, distances, relative velocities and sides the traffic source delivers
Traffic ==
    [angle : {-70, -69, 0, 69, 80},
     distance : {50, 51, 600, 699, 700, 750, 999, 1000},
     rel_v_x : {-200, 50},
     rel_d_x : {-1, 1},
     rel_d_y : {-1, 1}]

InitAvoid ==
    /\ Init
    /\ build = CHOOSE b \in BuildConfigs : b.autotune

\* each call finds either fresh telemetry in the members or what the
\* previous call left there
NextAvoid == \E tr \in Traffic \cup {trafic} : avoidance_maneuver(tr)

SpecAvoid == InitAvoid /\ [][NextAvoid]_vars

----------------------------------------------------------------------------
(* Reading the trace                                                       *)

InitHooks ==
    {"acro_init", "heli_acro_init", "stabilize_init", "heli_stabilize_init",
     "althold_init", "auto_init", "circle_init", "loiter_init", "guided_init",
     "land_init", "rtl_init", "drift_init", "sport_init", "flip_init",
     "autotune_init", "poshold_init", "brake_init", "throw_init"}

RunHooks ==
    {"acro_run", "heli_acro_run", "stabilize_run", "heli_stabilize_run",
     "heli_stabilize_run_ruas", "althold_run", "auto_run", "auto_run_ruas",
     "circle_run", "loiter_run", "guided_run", "land_run", "rtl_run",
     "drift_run", "sport_run", "flip_run", "autotune_run", "poshold_run",
     "brake_run", "throw_run"}

ExitHooks ==
    {"autotune_stop", "mission.state", "mission.stop", "camera_mount.set_mode_to_default",
     "throw_exit", "channel_throttle.control_in",
     "set_accel_throttle_I_from_pilot_throttle", "takeoff_stop",
     "attitude_control.use_flybar_passthrough", "motors.set_acro_tail",
     "input_manager.set_stab_col_ramp", "motors.reset_radio_passthrough"}

\* the positions of the events named in `names`
At(names) == {i \in DOMAIN trace : trace[i].ev \in names}

\* how often the hook `name` was invoked
Count(name) == Cardinality(At({name}))

\* a set_mode call has returned
Returned == call.op = "set_mode" /\ call.done /\ pc = "idle"

\* a set_mode call that asked for another mode than the current one
Changing == call.op = "set_mode" /\ call.mode # call.old

----------------------------------------------------------------------------
(* Claims                                                                  *)

\* C1: a set_mode call whose target was rejected (its init hook returned
\* false, or no case matched) returns false with control_mode at its previous
\* value; it invoked no exit cleanup, wrote no mode-change record, did not
\* signal the fence nor update the notify flag, and emitted exactly one error
\* record, carrying the rejected target.
C1_FailedSetModeLeavesState ==
    (Returned /\ Changing /\ ~call.success) =>
        /\ call.ret = FALSE
        /\ control_mode = call.old
        /\ At(ExitHooks) = {}
        /\ At({"commit", "Log_Write_Mode", "fence.manual_recovery_start",
               "notify_flight_mode"}) = {}
        /\ Count("Log_Write_Error") = 1
        /\ \A i \in At({"Log_Write_Error"}) : trace[i].arg = call.mode

\* an armed request whose init hook ran and rejected it
C1_Witness ==
    /\ Returned /\ Changing /\ ~call.success /\ armed
    /\ At(InitHooks) # {}
    /\ Count("Log_Write_Error") = 1

\* C2: in a successful transition old->new the init hook comes first, the
\* exit cleanup after it and the commit after the cleanup; every exit step
\* sees control_mode = old, everything after the commit sees new, and
\* control_mode is old or new throughout the call.
C2_ExitPrecedesCommit ==
    (call.op = "set_mode") =>
        /\ control_mode \in {call.old, call.mode}
        /\ (Changing /\ call.success) =>
             /\ At(InitHooks) = {1}
             /\ Cardinality(At({"commit"})) <= 1
             /\ \A c \in At({"commit"}) :
                  /\ \A i \in At(ExitHooks) : i < c
                  /\ At({"takeoff_stop"}) # {}
                  /\ \A i \in DOMAIN trace :
                       trace[i].cm = (IF i <= c THEN call.old ELSE call.mode)
                  /\ control_mode = call.mode
             /\ At({"commit"}) = {} =>
                  /\ control_mode = call.old
                  /\ \A i \in DOMAIN trace : trace[i].cm = call.old
             /\ Returned => At({"commit"}) # {}

\* a completed transition out of AUTO whose cleanup stopped the mission
C2_Witness ==
    /\ Returned /\ Changing /\ call.success
    /\ call.old = "AUTO"
    /\ Count("mission.stop") = 1
    /\ control_mode = call.mode

\* C3: set_mode(M) while control_mode = M returns true at once and has no
\* effect: no hook of any kind is invoked and no state changes.
C3_SameModeIsNoOp ==
    [][ (pc = "idle" /\ call'.op = "set_mode" /\ call'.mode = control_mode) =>
          /\ pc' = "idle"
          /\ call'.done /\ call'.ret
          /\ trace' = <<>>
          /\ control_mode' = control_mode
          /\ mission_state' = mission_state
          /\ autopilot_mode' = autopilot_mode
          /\ UNCHANGED avoid_vars ]_vars

\* a same-mode request made in a mode that an earlier transition entered
C3_Witness ==
    /\ Returned /\ ~Changing /\ call.ret
    /\ control_mode = "LOITER" /\ armed
    /\ trace = <<>>

\* C4: control_mode always holds a defined mode whose case is compiled into
\* set_mode's switch; no undefined or build-disabled value is ever committed.
C4_ControlModeValid ==
    /\ control_mode \in Modes
    /\ control_mode = "AUTOTUNE" => build.autotune
    /\ control_mode = "POSHOLD" => build.poshold

\* an undefined mode number was requested and refused while in THROW
C4_Witness ==
    /\ Returned /\ call.mode \in UndefinedModes /\ ~call.ret
    /\ control_mode = "THROW"

C6_AlwaysSucceedSet ==
    (/\ Returned /\ Changing
     /\ call.mode \in {"ACRO", "STABILIZE", "ALT_HOLD", "LAND", "DRIFT", "SPORT"}) =>
        /\ call.ret = TRUE
        /\ control_mode = call.mode

\* an armed switch to DRIFT out of an autopilot mode
C6_Witness ==
    /\ Returned /\ Changing /\ call.ret
    /\ call.mode = "DRIFT" /\ call.old = "RTL" /\ armed /\ ~land_complete
    /\ control_mode = "DRIFT"

\* C7: a successful transition old->new pre-loads the throttle integrator
\* exactly once, with the throttle derived from the stick value just read,
\* when old is ACRO, STABILIZE or STAB_RUAS, new is none of them, the vehicle
\* is armed and land_complete is false; otherwise it never does.
C7_ThrottlePreload ==
    (Returned /\ Changing /\ call.success) =>
        LET due == /\ call.old \in {"ACRO", "STABILIZE", "STAB_RUAS"}
                   /\ call.mode \notin {"ACRO", "STABILIZE", "STAB_RUAS"}
                   /\ armed
                   /\ ~land_complete
            pre == At({"set_accel_throttle_I_from_pilot_throttle"})
        IN /\ Cardinality(pre) = (IF due THEN 1 ELSE 0)
           /\ \A i \in pre :
                /\ i > 1
                /\ trace[i - 1].ev = "channel_throttle.control_in"
                /\ trace[i].arg = <<"get_pilot_desired_throttle", trace[i - 1].arg>>

\* STABILIZE -> ALT_HOLD in flight: one pre-load, from a non-zero stick value
C7_Witness ==
    /\ Returned /\ call.success
    /\ call.old = "STABILIZE" /\ call.mode = "ALT_HOLD" /\ armed /\ ~land_complete
    /\ \E i \in At({"set_accel_throttle_I_from_pilot_throttle"}) :
         trace[i].arg = <<"get_pilot_desired_throttle", MaxThrottle>>

\* C8: an unrecognised mode value changes nothing: set_mode(v) for a v
\* outside the enum leaves control_mode alone and, v not being the value
\* already held, returns false; update_flight_mode with control_mode holding a
\* value without a run case (outside the enum, or compiled out) runs no hook.
C8_UnknownModeIsInert ==
    /\ (call.op = "set_mode" /\ call.mode \in UndefinedModes) =>
          /\ control_mode = call.old
          /\ (Returned /\ Changing) => call.ret = FALSE
    /\ (/\ call.op = "update_flight_mode"
        /\ \/ control_mode \notin Modes
           \/ control_mode = "AUTOTUNE" /\ ~build.autotune
           \/ control_mode = "POSHOLD" /\ ~build.poshold) =>
          /\ At(RunHooks) = {}
          /\ Len(trace) = 1
          /\ call.old = control_mode

\* a tick with control_mode outside the enum
C8_Witness ==
    /\ call.op = "update_flight_mode"
    /\ control_mode \in UndefinedModes
    /\ Count("ahrs.getEkfControlLimits") = 1

\* the run hooks that belong to each mode
OwnRunHooks(mode) ==
    CASE mode = "ACRO"      -> {"acro_run", "heli_acro_run"}
      [] mode = "STABILIZE" -> {"stabilize_run", "heli_stabilize_run"}
      [] mode = "STAB_RUAS" -> {"stabilize_run", "heli_stabilize_run_ruas"}
      [] mode = "ALT_HOLD"  -> {"althold_run"}
      [] mode = "AUTO"      -> {"auto_run"}
      [] mode = "AUTO_RUAS" -> {"auto_run_ruas"}
      [] mode = "CIRCLE"    -> {"circle_run"}
      [] mode = "LOITER"    -> {"loiter_run"}
      [] mode = "GUIDED"    -> {"guided_run"}
      [] mode = "LAND"      -> {"land_run"}
      [] mode = "RTL"       -> {"rtl_run"}
      [] mode = "DRIFT"     -> {"drift_run"}
      [] mode = "SPORT"     -> {"sport_run"}
      [] mode = "FLIP"      -> {"flip_run"}
      [] mode = "AUTOTUNE"  -> {"autotune_run"}
      [] mode = "POSHOLD"   -> {"poshold_run"}
      [] mode = "BRAKE"     -> {"brake_run"}
      [] mode = "THROW"     -> {"throw_run"}
      [] OTHER              -> {}

\* C9: every tick invokes exactly one run hook, the one of the current
\* control_mode, and control_mode changes in no step other than set_mode's
\* commit.
C9_OneRunHookPerTick ==
    /\ [](call.op = "update_flight_mode" =>
            /\ Cardinality(At(RunHooks)) = 1
            /\ \A i \in At(RunHooks) : trace[i].ev \in OwnRunHooks(control_mode)
            /\ \A i \in DOMAIN trace : trace[i].cm = control_mode)
    /\ [][ control_mode' # control_mode =>
             /\ call.op = "set_mode" /\ call'.op = "set_mode"
             /\ pc = "commit"
             /\ control_mode' = call.mode ]_vars

\* a tick in THROW
C9_Witness ==
    /\ call.op = "update_flight_mode"
    /\ control_mode = "THROW"
    /\ Count("throw_run") = 1

\* C10: a successful mode-changing set_mode writes, after the commit, exactly
\* one mode-change record carrying the new mode, and signals the fence's
\* manual recovery exactly once when AC_FENCE is compiled in; a failed or
\* same-mode call does neither.
C10_LogAndFenceOnSuccess ==
    /\ (call.op = "set_mode") =>
          /\ \A i \in At({"Log_Write_Mode", "fence.manual_recovery_start"}) :
                /\ \E c \in At({"commit"}) : c < i
                /\ Changing /\ call.success
          /\ \A i \in At({"Log_Write_Mode"}) :
                trace[i].arg = call.mode /\ trace[i].cm = call.mode
    /\ (Returned /\ Changing /\ call.success) =>
          /\ Count("Log_Write_Mode") = 1
          /\ Count("fence.manual_recovery_start") = (IF build.fence THEN 1 ELSE 0)
    /\ (Returned /\ ~(Changing /\ call.success)) =>
          /\ Count("Log_Write_Mode") = 0
          /\ Count("fence.manual_recovery_start") = 0

\* a completed switch to GUIDED in a build with the fence
C10_Witness ==
    /\ Returned /\ Changing /\ call.success /\ build.fence
    /\ call.mode = "GUIDED"
    /\ Count("Log_Write_Mode") = 1
    /\ Count("fence.manual_recovery_start") = 1

\* C11: mode_allows_arming(m, false) is true exactly for ACRO, STABILIZE,
\* STAB_RUAS, LOITER, ALT_HOLD, POSHOLD, DRIFT, SPORT and THROW; with
\* arming_from_gcs it is true for GUIDED as well and the same everywhere else.
C11_AllowsArming ==
    (call.op = "mode_allows_arming") =>
        call.ret = (\/ call.mode \in {"ACRO", "STABILIZE", "STAB_RUAS", "LOITER",
                                     "ALT_HOLD", "POSHOLD", "DRIFT", "SPORT", "THROW"}
                    \/ (trace[1].arg = TRUE /\ call.mode = "GUIDED"))

\* GUIDED asked from the ground station
C11_Witness ==
    /\ call.op = "mode_allows_arming"
    /\ call.mode = "GUIDED"
    /\ trace[1].arg = TRUE
    /\ call.ret = TRUE

\* C12: mode_requires_GPS(m) is true exactly for AUTO, AUTO_RUAS, GUIDED,
\* LOITER, RTL, CIRCLE, DRIFT, POSHOLD, BRAKE and THROW, and false for every
\* other value, undefined ones included.
C12_RequiresGPS ==
    (call.op = "mode_requires_GPS") =>
        call.ret = (call.mode \in {"AUTO", "AUTO_RUAS", "GUIDED", "LOITER", "RTL",
                                   "CIRCLE", "DRIFT", "POSHOLD", "BRAKE", "THROW"})

\* BRAKE needs a position, asked in the helicopter build
C12_Witness ==
    /\ call.op = "mode_requires_GPS"
    /\ call.mode = "BRAKE"
    /\ build.heli
    /\ call.ret = TRUE

\* C13: every successful mode-changing set_mode cancels the takeoff exactly
\* once, whatever the old mode, the new mode, armed and land_complete; a
\* failed or same-mode set_mode never does.
C13_TakeoffCancelled ==
    (call.op = "set_mode") =>
        /\ Count("takeoff_stop") <= 1
        /\ (Returned /\ Changing /\ call.success) => Count("takeoff_stop") = 1
        /\ ~(Changing /\ call.success) => Count("takeoff_stop") = 0

\* a disarmed, landed switch from LAND to FLIP still cancels the takeoff
C13_Witness ==
    /\ Returned /\ Changing /\ call.success
    /\ call.old = "LAND" /\ call.mode = "FLIP"
    /\ ~armed /\ land_complete
    /\ Count("takeoff_stop") = 1

\* C14: a successful transition out of AUTO or AUTO_RUAS reads the mission
\* state once and calls mission.stop() exactly when it read MISSION_RUNNING,
\* so the mission is not running afterwards; a transition out of any other
\* mode never calls mission.stop() and leaves the mission state as it was.
C14_MissionStoppedOnLeavingAuto ==
    /\ []((Returned /\ Changing /\ call.success) =>
            IF call.old \in {"AUTO", "AUTO_RUAS"}
              THEN /\ Count("mission.state") = 1
                   /\ Count("mission.stop") <= 1
                   /\ \A i \in At({"mission.state"}) :
                        (Count("mission.stop") = 1) <=> (trace[i].arg = "MISSION_RUNNING")
                   /\ \A i \in At({"mission.stop"}) :
                        i > 1 /\ trace[i - 1].ev = "mission.state"
                   /\ mission_state # "MISSION_RUNNING"
              ELSE /\ Count("mission.stop") = 0
                   /\ Count("mission.state") = 0)
    /\ [][ (call.op = "set_mode" /\ call.old \notin {"AUTO", "AUTO_RUAS"}) =>
             mission_state' = mission_state ]_vars

\* AUTO_RUAS left with the mission running
C14_Witness ==
    /\ Returned /\ Changing /\ call.success
    /\ call.old = "AUTO_RUAS"
    /\ Count("mission.stop") = 1
    /\ mission_state = "MISSION_STOPPED"

\* the members as the last avoidance_maneuver call found them
Track == trace[1].arg

\* an avoidance_maneuver call has returned
Avoided == call.op = "avoidance_maneuver"

\* C15: after avoidance_maneuver, do_track_maneuver is (|bearing| < 70 and
\* 50 < distance < 1000) and do_avoid_maneuver is (|bearing| < 70 and
\* 50 < distance < 700) of the traffic it was called with, all bounds strict,
\* and these are the flags it logs.
C15_ZoneFlags ==
    Avoided =>
        /\ do_track_maneuver = (/\ -70 < Track.angle /\ Track.angle < 70
                                /\ 50 < Track.distance /\ Track.distance < 1000)
        /\ do_avoid_maneuver = (/\ -70 < Track.angle /\ Track.angle < 70
                                /\ 50 < Track.distance /\ Track.distance < 700)
        /\ trace[2].arg[1] = do_avoid_maneuver
        /\ trace[2].arg[4] = do_track_maneuver
        /\ (Track.angle = 0 /\ Track.distance = 600) => do_avoid_maneuver
        /\ (Track.angle = 0 /\ Track.distance = 750) =>
               (~do_avoid_maneuver /\ do_track_maneuver)
        /\ Track.angle = 80 => (~do_avoid_maneuver /\ ~do_track_maneuver)

\* traffic dead ahead at 750: tracked, not avoided
C15_Witness ==
    /\ Avoided
    /\ Track.angle = 0 /\ Track.distance = 750
    /\ do_track_maneuver /\ ~do_avoid_maneuver

\* C16: whenever avoidance_maneuver is called with traffic outside the
\* avoidance zone, the roll and pitch corrections it leaves and logs are zero
\* and the avoidance flag is false, whatever earlier calls computed.  (The
\* tracking flag follows its own wider zone, C15.)
C16_ZeroOutsideZone ==
    (/\ Avoided
     /\ ~(/\ -70 < Track.angle /\ Track.angle < 70
          /\ 50 < Track.distance /\ Track.distance < 700)) =>
        /\ ~do_avoid_maneuver
        /\ avoidance_roll_angle_cd = 0
        /\ avoidance_pitch_angle_cd = 0
        /\ trace[2].arg[2] = 0
        /\ trace[2].arg[3] = 0

\* C17: avoidance_maneuver keeps nothing between calls: a call leaves the
\* traffic members as it found them, and a call that finds the same traffic
\* as the call before it produces the same flags and corrections.
C17_Stateless ==
    [][ (call'.op = "avoidance_maneuver") =>
          /\ trafic' = trace'[1].arg
          /\ (call.op = "avoidance_maneuver" /\ trace[1].arg = trace'[1].arg) =>
                /\ do_track_maneuver' = do_track_maneuver
                /\ do_avoid_maneuver' = do_avoid_maneuver
                /\ avoidance_roll_angle_cd' = avoidance_roll_angle_cd
                /\ avoidance_pitch_angle_cd' = avoidance_pitch_angle_cd ]_vars

\* 5 degrees in the unit of BankAngle (1e-4 rad)
FiveDegrees == (5 * 31416) \div 180

\* C18: in the avoidance zone the published roll and pitch corrections never
\* exceed 500 centi-degrees in magnitude, and the roll correction is exactly
\* 500 in magnitude when the raw bank angle exceeds 5 degrees.
C18_ClampedToFiveDegrees ==
    (Avoided /\ do_avoid_maneuver) =>
        /\ Abs(avoidance_roll_angle_cd) <= 500
        /\ Abs(avoidance_pitch_angle_cd) <= 500
        /\ Abs(BankAngle((Track.rel_v_x * Response(trafic.distance)) \div 10)) > FiveDegrees
              => Abs(avoidance_roll_angle_cd) = 500

\* C19: whenever no set_mode call is in progress the notify flag
\* autopilot_mode is true exactly in AUTO, AUTO_RUAS, GUIDED, RTL, CIRCLE and
\* LAND; the flag changes only in the notify step of a successful mode
\* change, after the commit, never in a failed or same-mode call.
C19_NotifyFlagFollowsMode ==
    /\ [](pc = "idle" =>
            autopilot_mode = (control_mode \in {"AUTO", "AUTO_RUAS", "GUIDED",
                                                "RTL", "CIRCLE", "LAND"}))
    /\ [][ autopilot_mode' # autopilot_mode =>
             /\ pc = "notify"
             /\ Changing /\ call.success
             /\ At({"commit"}) # {}
             /\ control_mode = call.mode ]_vars

\* LAND entered from a manual mode: the flag has been raised
C19_Witness ==
    /\ Returned /\ Changing /\ call.success
    /\ call.old = "SPORT" /\ control_mode = "LAND"
    /\ autopilot_mode

\* C20: after every avoidance_maneuver call do_avoid_maneuver implies
\* do_track_maneuver, in the members and in the log record, also when the
\* call raised the distance to the safety bubble.
C20_AvoidImpliesTrack ==
    Avoided =>
        /\ do_avoid_maneuver => do_track_maneuver
        /\ trace[2].arg[1] => trace[2].arg[4]

\* traffic at 51, inside the bubble: the distance was raised, both flags set
C20_Witness ==
    /\ Avoided
    /\ Track.distance = 51 /\ trafic.distance = safety_bubble
    /\ do_avoid_maneuver /\ do_track_maneuver

====
